---- MODULE Spec2Model ----
(***************************************************************************)
(* A model of the rust-mqtt client (src/src/main.rs, src/src/packet.rs,    *)
(* src/src/qos.rs): the packet codec as operators over byte sequences, and *)
(* the session run by main() as a state machine: the main thread, the      *)
(* Ctrl-C handler thread, the PINGREQ sender thread and the broker at the  *)
(* other end of the TCP stream.                                            *)
(*                                                                         *)
(* Bytes are the integers 0..255, a byte string is a sequence of them, and *)
(* Rust's 0-based indices are kept: At(buf, n) is buf[n].                  *)
(***************************************************************************)
EXTENDS Integers, Sequences, FiniteSets, TLC

(***************************************************************************)
(* Bounds of the model.                                                    *)
(***************************************************************************)
\* Packet identifiers used by the broker and drawn by generate_packet_id
\* are 0..MaxId (the code draws from all of u16).
MaxId == 1
\* Events of the environment in one run: a packet sent by the broker, the
\* timer of the PINGREQ sender thread firing, a SIGINT.
MaxEvents == 5
\* Packets that reads of the stream return behind another packet, in all:
\* a read returns one packet, or several that arrived together.
MaxCoalesced == 1

(***************************************************************************)
(* Byte strings.                                                           *)
(***************************************************************************)
\* let mut buffer = [0; 1024]
BufferSize == 1024

\* Option<T>: None, Some(v), is_some, unwrap
None == <<>>
Some(v) == <<v>>
is_some(o) == o # <<>>
unwrap(o) == o[1]

\* buf[n] of a buffer whose bytes beyond the ones written so far are still
\* the zeros it was created with.
At(buf, n) == IF n < Len(buf) THEN buf[n + 1] ELSE 0

\* buf[from..to]
Bytes(buf, from, to) == [k \in 1..(to - from) |-> At(buf, from + k - 1)]

\* &buf[from..]
Slice(buf, from) == SubSeq(buf, from + 1, Len(buf))

\* u16::to_be_bytes
to_be_bytes(n) == <<(n \div 256) % 256, n % 256>>

\* u16::from_be_bytes
from_be_bytes(hi, lo) == hi * 256 + lo

\* String::from_utf8(..).unwrap() succeeds. The strings of this model are
\* made of the bytes below 0x80 and of 0xFF; on those, a string is UTF-8
\* exactly when it holds no 0xFF.
from_utf8_ok(s) == \A k \in 1..Len(s) : s[k] < 128

RECURSIVE Concat(_)
Concat(seqs) == IF seqs = <<>> THEN <<>> ELSE Head(seqs) \o Concat(Tail(seqs))

(***************************************************************************)
(* qos.rs                                                                  *)
(***************************************************************************)
QoS0 == "QoS0"
QoS1 == "QoS1"
QoS2 == "QoS2"
QoS == {QoS0, QoS1, QoS2}

\* a conversion that clamps to the highest QoS
QoS_from_clamped(v) == IF v = 0 THEN QoS0 ELSE IF v = 1 THEN QoS1 ELSE QoS2
\* impl From<u8> for QoS; "unreachable" is the panic of unreachable!()
QoS_from(v) ==
    CASE v = 0 -> QoS0
      [] v = 1 -> QoS1
      [] v = 2 -> QoS2
      [] OTHER -> "unreachable"

\* qos as u8
QoS_as_u8(q) ==
    CASE q = QoS0 -> 0
      [] q = QoS1 -> 1
      [] q = QoS2 -> 2

(***************************************************************************)
(* packet.rs: the remaining length                                         *)
(***************************************************************************)
MaxRemainingLength == 268435455

RECURSIVE length_bytes(_)
\* the loop of insert_remaining_length
length_bytes(length) ==
    LET b == length % 128
        rest == length \div 128
    IN IF rest > 0 THEN <<b + 128>> \o length_bytes(rest) ELSE <<b>>

\* the test of insert_remaining_length on the length
too_large(length) == length > MaxRemainingLength

\* insert_remaining_length panics
insert_remaining_length_panics(bytes) == too_large(Len(bytes) - 1)

\* insert_remaining_length: bytes.splice(1..1, length_bytes)
insert_remaining_length(bytes) ==
    <<bytes[1]>> \o length_bytes(Len(bytes) - 1) \o Tail(bytes)

RECURSIVE extract_loop(_, _, _, _)
\* the loop of extract_remaining_length
extract_loop(bytes, idx, length, multiplier) ==
    LET l2 == length + (At(bytes, idx) % 128) * multiplier
    IN IF At(bytes, idx) \div 128 = 0
       THEN <<l2, idx + 1>>
       ELSE extract_loop(bytes, idx + 1, l2, multiplier * 128)

\* a decoder that stops after one length byte
extract_one_byte(bytes) == <<At(bytes, 1) % 128, 2>>
\* extract_remaining_length: (remaining length, variable header start index)
extract_remaining_length(bytes) == extract_loop(bytes, 1, 0, 1)

\* generate_packet_id: rng.gen() of a u16, within the bound of the model
PacketIds == 0..MaxId

(***************************************************************************)
(* packet.rs: serialize                                                    *)
(***************************************************************************)
Bit(b) == IF b THEN 1 ELSE 0

\* a length-prefixed string
LenPrefixed(s) == to_be_bytes(Len(s)) \o s

\* the control flags with the will QoS one bit too high
control_flag_qos_shifted(p) ==
    Bit(is_some(p.username)) * 128 + Bit(is_some(p.password)) * 64
    + Bit(p.will_retain) * 32 + QoS_as_u8(p.qos) * 16
    + Bit(p.will_flag) * 4 + Bit(p.clean_session) * 2

\* the control flags of ConnectPacket::serialize; the operands of | have no
\* bit in common, so the or is their sum
control_flag(p) ==
    Bit(is_some(p.username)) * 128
    + Bit(is_some(p.password)) * 64
    + Bit(p.will_retain) * 32
    + QoS_as_u8(p.qos) * 8
    + Bit(p.will_flag) * 4
    + Bit(p.clean_session) * 2

\* ConnectPacket::serialize
ConnectPacket_serialize(p) ==
    LET
        will == IF p.will_flag
                THEN (IF is_some(p.will_topic)
                      THEN LenPrefixed(unwrap(p.will_topic)) ELSE <<>>)
                     \o (IF is_some(p.will_message)
                         THEN LenPrefixed(unwrap(p.will_message)) ELSE <<>>)
                ELSE <<>>
        user == IF is_some(p.username)
                THEN LenPrefixed(unwrap(p.username))
                     \o (IF is_some(p.password)
                         THEN LenPrefixed(unwrap(p.password)) ELSE <<>>)
                ELSE <<>>
    IN insert_remaining_length(
           <<16>> \o to_be_bytes(4) \o <<77, 81, 84, 84>> \o <<4>>
           \o <<control_flag(p)>> \o to_be_bytes(p.keep_alive)
           \o LenPrefixed(p.client_id) \o will \o user)

\* PublishPacket::serialize
PublishPacket_serialize(p) ==
    insert_remaining_length(
        <<48 + Bit(p.dup) * 8 + QoS_as_u8(p.qos) * 2 + Bit(p.retain)>>
        \o LenPrefixed(p.topic_name)
        \o (IF is_some(p.packet_id) THEN to_be_bytes(unwrap(p.packet_id)) ELSE <<>>)
        \o p.payload)

\* PubackPacket::serialize
PubackPacket_serialize(p) == <<64, 2>> \o to_be_bytes(p.packet_id)

\* PubrecPacket::serialize
PubrecPacket_serialize(p) == <<80, 2>> \o to_be_bytes(p.packet_id)

\* PubrelPacket::serialize
PubrelPacket_serialize(p) == <<98, 2>> \o to_be_bytes(p.packet_id)

\* PubcompPacket::serialize
PubcompPacket_serialize(p) == <<112, 2>> \o to_be_bytes(p.packet_id)

\* SubscribePacket::serialize, of the one topic filter main() subscribes to
SubscribePacket_serialize(p) ==
    insert_remaining_length(
        <<130>> \o to_be_bytes(p.packet_id)
        \o LenPrefixed(p.topic) \o <<QoS_as_u8(p.qos)>>)

\* UnsubscribePacket::serialize, of the one topic filter
UnsubscribePacket_serialize(p) ==
    insert_remaining_length(
        <<162>> \o to_be_bytes(p.packet_id) \o LenPrefixed(p.topic))

\* PingreqPacket::serialize
PingreqPacket_serialize == <<192, 0>>

\* DisconnectPacket::serialize
DisconnectPacket_serialize == <<224, 0>>

\* PacketType::serialize of the packets create_replay_packet_with_received_packet
\* returns as the reply
PacketType_serialize(p) ==
    CASE p.type = "PUBACK" -> PubackPacket_serialize(p)
      [] p.type = "PUBREC" -> PubrecPacket_serialize(p)
      [] p.type = "PUBCOMP" -> PubcompPacket_serialize(p)

(***************************************************************************)
(* packet.rs: deserialize. Each returns [panic, packet, size]: panic is    *)
(* TRUE when the function panics (a failed assert!, unreachable!(),        *)
(* unimplemented!(), an unwrap() of an error) and the other two are then   *)
(* of no use.                                                              *)
(***************************************************************************)
NoPacket == [type |-> "None"]
Panicked == [panic |-> TRUE, packet |-> NoPacket, size |-> 0]
Decoded(p, n) == [panic |-> FALSE, packet |-> p, size |-> n]

\* a table that refuses nothing
refused_reason_none(code) == None

\* the reason-code table of ConnackPacket::deserialize
refused_reason(code) ==
    CASE code = 0 -> None
      [] code = 1 -> Some("unacceptable protocol version")
      [] code = 2 -> Some("identifier rejected")
      [] code = 3 -> Some("server unavailable")
      [] code = 4 -> Some("bad user name or password")
      [] code = 5 -> Some("not authorized")

\* ConnackPacket::deserialize
ConnackPacket_deserialize(buf) ==
    IF At(buf, 0) # 32 \/ At(buf, 1) # 2 \/ At(buf, 3) > 5
    THEN Panicked
    ELSE Decoded([type |-> "CONNACK",
                  sp |-> At(buf, 2) % 2 = 1,
                  accepted |-> ~is_some(refused_reason(At(buf, 3))),
                  refused_reason |-> refused_reason(At(buf, 3))], 4)

\* PublishPacket::deserialize on a slice of len bytes
PublishPacket_deserialize_of(buf, len) ==
    LET dup == (At(buf, 0) \div 8) % 2 = 1
        qos == QoS_from((At(buf, 0) \div 2) % 4)
        retain == At(buf, 0) % 2 = 1
        rl == extract_remaining_length(buf)
        remaining_length == rl[1]
        fixed_header_length == rl[2]
        topic_name_length ==
            from_be_bytes(At(buf, fixed_header_length), At(buf, fixed_header_length + 1))
        topic_name ==
            Bytes(buf, fixed_header_length + 2, fixed_header_length + 2 + topic_name_length)
        i1 == fixed_header_length + 2 + topic_name_length
        \* i += 2 comes before the two bytes are read
        i2 == IF qos # QoS0 THEN i1 + 2 ELSE i1
        packet_id == IF qos # QoS0
                     THEN Some(from_be_bytes(At(buf, i2), At(buf, i2 + 1)))
                     ELSE None
        payload == Bytes(buf, i2, i2 + (remaining_length - (2 + topic_name_length)))
    IN IF \/ At(buf, 0) \div 16 # 3
          \/ qos \notin QoS
          \/ ~from_utf8_ok(topic_name)
          \/ remaining_length < 2 + topic_name_length
          \/ (qos # QoS0 /\ i2 + 2 > len)
          \/ i2 + (remaining_length - (2 + topic_name_length)) > len
       THEN Panicked
       ELSE Decoded([type |-> "PUBLISH", dup |-> dup, qos |-> qos, retain |-> retain,
                     topic_name |-> topic_name, packet_id |-> packet_id,
                     payload |-> payload],
                    fixed_header_length + remaining_length)

\* PublishPacket::deserialize on the buffer of main(), which is of
\* BufferSize bytes however many were read
PublishPacket_deserialize(buf) == PublishPacket_deserialize_of(buf, BufferSize)

\* the deserialize of a packet that is a packet identifier and nothing
\* else: PubackPacket, PubrecPacket, PubrelPacket, PubcompPacket,
\* UnsubackPacket, each with its own first byte
IdPacket_deserialize(buf, type, byte0) ==
    IF At(buf, 0) # byte0 \/ At(buf, 1) # 2
    THEN Panicked
    ELSE Decoded([type |-> type,
                  packet_id |-> from_be_bytes(At(buf, 2), At(buf, 3))], 4)

\* a decoder without the two assert! of the fixed header
PubackPacket_deserialize_unasserted(buf) ==
    Decoded([type |-> "PUBACK", packet_id |-> from_be_bytes(At(buf, 2), At(buf, 3))], 4)

\* PubackPacket::deserialize
PubackPacket_deserialize(buf) == IdPacket_deserialize(buf, "PUBACK", 64)

\* PubrecPacket::deserialize
PubrecPacket_deserialize(buf) == IdPacket_deserialize(buf, "PUBREC", 80)

\* PubrelPacket::deserialize
PubrelPacket_deserialize(buf) == IdPacket_deserialize(buf, "PUBREL", 98)

\* PubcompPacket::deserialize
PubcompPacket_deserialize(buf) == IdPacket_deserialize(buf, "PUBCOMP", 112)

\* UnsubackPacket::deserialize
UnsubackPacket_deserialize(buf) == IdPacket_deserialize(buf, "UNSUBACK", 176)

\* SubackPacket::deserialize
SubackPacket_deserialize(buf) ==
    IF At(buf, 0) # 144 \/ At(buf, 1) # 3 \/ At(buf, 4) \notin {0, 1, 2, 128}
    THEN Panicked
    ELSE Decoded([type |-> "SUBACK",
                  packet_id |-> from_be_bytes(At(buf, 2), At(buf, 3)),
                  maximum_qos |-> IF At(buf, 4) = 128 THEN None
                                  ELSE Some(QoS_from(At(buf, 4))),
                  failure |-> At(buf, 4) = 128], 5)

\* PingrespPacket::deserialize
PingrespPacket_deserialize(buf) ==
    IF At(buf, 0) # 208 \/ At(buf, 1) # 0
    THEN Panicked
    ELSE Decoded([type |-> "PINGRESP"], 2)

\* a match on the low nibble of the first byte
variant_of_low_nibble(byte0) ==
    LET nibble == byte0 % 16
    IN IF nibble \in 1..14
       THEN <<"CONNECT", "CONNACK", "PUBLISH", "PUBACK", "PUBREC", "PUBREL", "PUBCOMP",
              "SUBSCRIBE", "SUBACK", "UNSUBSCRIBE", "UNSUBACK", "PINGREQ", "PINGRESP",
              "DISCONNECT">>[nibble]
       ELSE "unimplemented"
\* the match of PacketType::deserialize on buf[0] & 0b1111_0000: the variant
\* whose deserialize is called, "unimplemented" for the arm _
variant_of(byte0) ==
    LET masked == byte0 - (byte0 % 16)
    IN CASE masked = 16 -> "CONNECT"
         [] masked = 32 -> "CONNACK"
         [] masked = 48 -> "PUBLISH"
         [] masked = 64 -> "PUBACK"
         [] masked = 80 -> "PUBREC"
         [] masked = 96 -> "PUBREL"
         [] masked = 112 -> "PUBCOMP"
         [] masked = 128 -> "SUBSCRIBE"
         [] masked = 144 -> "SUBACK"
         [] masked = 160 -> "UNSUBSCRIBE"
         [] masked = 176 -> "UNSUBACK"
         [] masked = 192 -> "PINGREQ"
         [] masked = 208 -> "PINGRESP"
         [] masked = 224 -> "DISCONNECT"
         [] OTHER -> "unimplemented"

\* PacketType::deserialize: the high nibble of buf[0] selects the decoder.
\* The deserialize of Connect, Subscribe, Unsubscribe, Pingreq and
\* Disconnect is unimplemented!(), as is every other nibble.
PacketType_deserialize(buf) ==
    LET variant == variant_of(At(buf, 0))
    IN CASE variant = "CONNACK" -> ConnackPacket_deserialize(buf)
         [] variant = "PUBLISH" -> PublishPacket_deserialize(buf)
         [] variant = "PUBACK" -> PubackPacket_deserialize(buf)
         [] variant = "PUBREC" -> PubrecPacket_deserialize(buf)
         [] variant = "PUBREL" -> PubrelPacket_deserialize(buf)
         [] variant = "PUBCOMP" -> PubcompPacket_deserialize(buf)
         [] variant = "SUBACK" -> SubackPacket_deserialize(buf)
         [] variant = "UNSUBACK" -> UnsubackPacket_deserialize(buf)
         [] variant = "PINGRESP" -> PingrespPacket_deserialize(buf)
         [] OTHER -> Panicked

\* the match of create_replay_packet_with_received_packet: the reply to a
\* received packet, NoPacket for Option::None, and "unimplemented" for the
\* packets the match panics on
replied_packet_of(packet) ==
    CASE packet.type = "PUBLISH" ->
            IF packet.qos = QoS1
            THEN [type |-> "PUBACK", packet_id |-> unwrap(packet.packet_id)]
            ELSE IF packet.qos = QoS2
            THEN [type |-> "PUBREC", packet_id |-> unwrap(packet.packet_id)]
            ELSE NoPacket
      [] packet.type = "PUBREL" ->
            [type |-> "PUBCOMP", packet_id |-> packet.packet_id]
      [] packet.type = "UNSUBACK" -> NoPacket
      [] packet.type = "PINGRESP" -> NoPacket
      [] OTHER -> [type |-> "unimplemented"]

\* create_replay_packet_with_received_packet(buf, i):
\* (received packet, reply, index of the next packet)
create_replay_packet_with_received_packet(buf, idx) ==
    LET d == PacketType_deserialize(Slice(buf, idx))
    IN [panic |-> d.panic \/ replied_packet_of(d.packet).type = "unimplemented",
        packet |-> d.packet,
        replied_packet |-> replied_packet_of(d.packet),
        next_i |-> idx + d.size]

(***************************************************************************)
(* packet.rs: constructors                                                 *)
(***************************************************************************)
RECURSIVE Decimal(_)
\* the decimal digits of n, as format!("{}", n) writes them
Decimal(n) == IF n < 10 THEN <<48 + n>> ELSE Decimal(n \div 10) \o <<48 + (n % 10)>>

\* a constructor without the two checks
ConnectPacket_new_unchecked(username, password, client_id, keep_alive, clean_session, will_flag, will_topic, will_message, generated) ==
    [panic |-> FALSE,
     packet |-> [type |-> "CONNECT",
                 client_id |-> IF is_some(client_id) THEN unwrap(client_id)
                               ELSE <<109, 113, 116, 116, 99, 108, 105, 101, 110, 116>>
                                    \o Decimal(generated),
                 username |-> username,
                 password |-> password,
                 qos |-> QoS0,
                 clean_session |-> clean_session,
                 keep_alive |-> keep_alive,
                 will_flag |-> will_flag,
                 will_retain |-> FALSE,
                 will_topic |-> will_topic,
                 will_message |-> will_message]]

\* ConnectPacket::new; generated is the u16 rng.gen() returns
ConnectPacket_new(username, password, client_id, keep_alive, clean_session, will_flag, will_topic, will_message, generated) ==
    [panic |-> \/ (~is_some(username) /\ is_some(password))
               \/ (will_flag /\ (~is_some(will_topic) \/ ~is_some(will_message))),
     packet |-> [type |-> "CONNECT",
                 client_id |-> IF is_some(client_id) THEN unwrap(client_id)
                               ELSE <<109, 113, 116, 116, 99, 108, 105, 101, 110, 116>>
                                    \o Decimal(generated),
                 username |-> username,
                 password |-> password,
                 qos |-> QoS0,
                 clean_session |-> clean_session,
                 keep_alive |-> keep_alive,
                 will_flag |-> will_flag,
                 will_retain |-> FALSE,
                 will_topic |-> will_topic,
                 will_message |-> will_message]]

\* PublishPacket::new; generated is the value generate_packet_id() returns
PublishPacket_new(dup, qos_, retain, topic_name, packet_id, payload, generated) ==
    [type |-> "PUBLISH", dup |-> dup, qos |-> qos_, retain |-> retain,
     topic_name |-> topic_name,
     packet_id |-> IF (qos_ = QoS2 \/ qos_ = QoS1) /\ ~is_some(packet_id)
                   THEN Some(generated) ELSE packet_id,
     payload |-> payload]

(***************************************************************************)
(* std::collections::HashMap<u16, _>, as a function on the set of its keys *)
(***************************************************************************)
HashMap_new == [k \in {} |-> NoPacket]
HashMap_insert(m, key, v) == [k \in DOMAIN m \cup {key} |-> IF k = key THEN v ELSE m[k]]
\* a remove that removes nothing
HashMap_remove_nothing(m, key) == m
HashMap_remove(m, key) == [k \in DOMAIN m \ {key} |-> m[k]]
contains_key(m, key) == key \in DOMAIN m

(***************************************************************************)
(* The session: main() and its two threads, and the broker.                *)
(***************************************************************************)
VARIABLES
    pc,                \* where the main thread is in main()
    cmd,               \* the subcommand: "pub" or "sub"
    qos,               \* --qos
    buffer,            \* let mut buffer = [0; 1024]: its bytes up to the last
                       \* one ever written; the rest is still 0
    result,            \* the byte count of the first read
    i,                 \* the index of the drain loop
    connack_packet,    \* the Connack main() decoded
    publish_packet,    \* the Publish of the pub command
    subscribe_packet,  \* the Subscribe of the sub command
    unpuback_packets,  \* awaiting-PUBACK
    unpubrec_packets,  \* awaiting-PUBREC
    unpubrel_packets,  \* awaiting-PUBREL
    unpubcomp_packets, \* awaiting-PUBCOMP
    wait_for_exit,     \* the Mutex<bool> the Ctrl-C handler sets
    handler_set,       \* ctrlc::set_handler has run
    pinger_started,    \* the PINGREQ sender thread is spawned
    handler_pc,        \* where the Ctrl-C handler is
    received,          \* the packets the last read returned, as the broker sent them
    wire_out,          \* the packets written to the stream, in order
    delivered,         \* the payloads consume_published_packet printed
    logged,            \* the warn! and error! records, in order
    main_flushed,      \* FALSE between a write of main() and its flush
    pinger_pc,         \* where the PINGREQ sender thread is
    n_events,          \* events of the environment so far
    n_reads,           \* reads of the stream that have returned
    n_coalesced,       \* packets a read returned behind another packet
    codec_fn,          \* the function of packet.rs or qos.rs that was called
    codec_in,          \* its argument
    codec_out          \* what it returned

tables == <<unpuback_packets, unpubrec_packets, unpubrel_packets, unpubcomp_packets>>
threads == <<wait_for_exit, handler_set, pinger_started, handler_pc, pinger_pc>>
locals == <<cmd, qos, result, i, connack_packet, publish_packet, subscribe_packet>>
codec == <<codec_fn, codec_in, codec_out>>
session == <<pc, buffer, locals, tables, threads, main_flushed, received, n_events,
             n_reads, n_coalesced, wire_out, delivered, logged>>
vars == <<session, codec>>

\* the command line: -t a, -m h, --clientid c, --keepalive 60, --cleansession
Topic == <<97>>
Message == <<104>>
ClientId == <<99>>
KeepAlive == 60

\* What the broker sends. Its Publish packets have the layout of
\* PublishPacket::serialize, its acknowledgments the layout of the
\* serialize of their packets; Connack, Suback, Unsuback and Pingresp have
\* the bytes their deserialize asserts.
Payloads == {<<0, 1>>}
ConnackCodes == {0, 5}
BrokerConnack(code) == <<32, 2, 0, code>>
BrokerSuback(id) == <<144, 3>> \o to_be_bytes(id) \o <<0>>
BrokerUnsuback(id) == <<176, 2>> \o to_be_bytes(id)
BrokerPingresp == <<208, 0>>
BrokerPublish(q, id, payload) ==
    PublishPacket_serialize([dup |-> FALSE, qos |-> q, retain |-> FALSE,
                             topic_name |-> Topic,
                             packet_id |-> IF q = QoS0 THEN None ELSE Some(id),
                             payload |-> payload])
\* the packets a broker sends on the heels of another one: the Publish and
\* Pubrel packets of messages it has queued for the client
PipelinedPackets ==
    {BrokerPublish(QoS0, 0, pl) : pl \in Payloads}
    \cup {BrokerPublish(q, id, pl) : q \in {QoS1, QoS2}, id \in PacketIds, pl \in Payloads}
    \cup {PubrelPacket_serialize([packet_id |-> id]) : id \in PacketIds}

BrokerPackets ==
    {BrokerConnack(code) : code \in ConnackCodes}
    \cup {BrokerPublish(QoS0, 0, pl) : pl \in Payloads}
    \cup {BrokerPublish(q, id, pl) : q \in {QoS1, QoS2}, id \in PacketIds, pl \in Payloads}
    \cup {PubackPacket_serialize([packet_id |-> id]) : id \in PacketIds}
    \cup {PubrecPacket_serialize([packet_id |-> id]) : id \in PacketIds}
    \cup {PubrelPacket_serialize([packet_id |-> id]) : id \in PacketIds}
    \cup {PubcompPacket_serialize([packet_id |-> id]) : id \in PacketIds}
    \cup {BrokerSuback(id) : id \in PacketIds}
    \cup {BrokerUnsuback(0)}
    \cup {BrokerPingresp}

\* main() is started with the command c and --qos q.
Started(c, q) ==
    /\ pc = "connect"
    /\ cmd = c
    /\ qos = q
    /\ buffer = <<>>
    /\ result = 0
    /\ i = 0
    /\ connack_packet = NoPacket
    /\ publish_packet = NoPacket
    /\ subscribe_packet = NoPacket
    /\ unpuback_packets = HashMap_new
    /\ unpubrec_packets = HashMap_new
    /\ unpubrel_packets = HashMap_new
    /\ unpubcomp_packets = HashMap_new
    /\ wait_for_exit = FALSE
    /\ handler_set = FALSE
    /\ pinger_started = FALSE
    /\ handler_pc = "idle"
    /\ pinger_pc = "sleep"
    /\ main_flushed = TRUE
    /\ received = <<>>
    /\ wire_out = <<>>
    /\ delivered = <<>>
    /\ logged = <<>>
    /\ n_events = 0
    /\ n_reads = 0
    /\ n_coalesced = 0

\* No function is called on its own.
NoCall ==
    /\ codec_fn = "none"
    /\ codec_in = <<>>
    /\ codec_out = <<>>

Init ==
    /\ \E c \in {"pub", "sub"}, q \in QoS : Started(c, q)
    /\ NoCall

\* The process runs: main() has neither returned nor panicked.
Alive == pc \notin {"done", "returned", "panic"}

\* stream.write(bytes) and stream.flush()
Written(bytes) == Append(wire_out, bytes)

\* The broker answers the Unsubscribe of the Ctrl-C handler: when the flag
\* is set, the read the receive loop is blocked in returns with the Unsuback
\* if with nothing else.
UnsubackAwaited == wait_for_exit /\ pc = "loop" /\ n_events <= MaxEvents

\* stream.read(&mut buffer): it blocks until bytes have arrived and returns
\* all that have. Bursts is what the broker may have sent by then: one
\* packet or several, one after the other (far fewer bytes than the 1024
\* the buffer takes).
Bursts ==
    LET room == IF MaxEvents - n_events - 1 < MaxCoalesced - n_coalesced
                THEN MaxEvents - n_events - 1
                ELSE MaxCoalesced - n_coalesced
    IN IF n_events < MaxEvents
       THEN {<<p>> \o t : p \in BrokerPackets,
                          t \in UNION {[1..n -> PipelinedPackets] : n \in 0..room}}
       ELSE IF UnsubackAwaited THEN {<<BrokerUnsuback(0)>>} ELSE {}

\* The buffer after a read of data: the bytes beyond the ones read keep
\* their old values.
BufferAfter(data) == data \o SubSeq(buffer, Len(data) + 1, Len(buffer))

\* The read of a burst that the code gets through without a panic.
Read(burst) ==
    /\ buffer' = BufferAfter(Concat(burst))
    /\ received' = burst
    /\ n_events' = n_events + Len(burst)
    /\ n_reads' = n_reads + 1
    /\ n_coalesced' = n_coalesced + Len(burst) - 1

\* The main thread panics: the process ends. No panic of main() comes
\* after a write, a delivery or a log record of the same step.
Panic ==
    /\ pc' = "panic"
    /\ UNCHANGED <<buffer, received, n_events, n_reads, n_coalesced>>

\* The main thread panics on what it has just read.
ReadPanic(burst) ==
    /\ Read(burst)
    /\ pc' = "panic"

NoRead == UNCHANGED <<buffer, received, n_events, n_reads, n_coalesced>>

\* An event of the environment that is no packet.
Event ==
    /\ n_events < MaxEvents
    /\ n_events' = n_events + 1
    /\ UNCHANGED <<buffer, received, n_reads, n_coalesced>>

(***************************************************************************)
(* main(): CONNECT, CONNACK and the packets read with it                   *)
(***************************************************************************)
\* main.rs 83-95: build the Connect and write it
Connect ==
    /\ main_flushed
    /\ pc = "connect"
    /\ \E generated \in PacketIds :
         LET c == ConnectPacket_new(None, None, Some(ClientId), KeepAlive, TRUE,
                                    FALSE, None, None, generated)
         IN IF c.panic
            THEN Panic /\ UNCHANGED wire_out
            ELSE /\ wire_out' = Written(ConnectPacket_serialize(c.packet))
                 /\ pc' = "connack"
                 /\ NoRead
    /\ UNCHANGED <<locals, tables, threads, delivered, logged>>
    /\ main_flushed' = (wire_out' = wire_out)
    /\ UNCHANGED codec

\* main.rs 97-99: the first read, and the Connack at the head of the buffer.
\* connack_packet.accepted is never looked at.
ReadConnack ==
    /\ main_flushed
    /\ pc = "connack"
    /\ \E burst \in Bursts :
       LET d == ConnackPacket_deserialize(BufferAfter(Concat(burst)))
       IN IF d.panic
          THEN ReadPanic(burst) /\ UNCHANGED <<result, i, connack_packet>>
          ELSE /\ Read(burst)
               /\ result' = Len(Concat(burst))
               /\ connack_packet' = d.packet
               /\ i' = d.size
               /\ pc' = "drain"
    /\ UNCHANGED <<cmd, qos, publish_packet, subscribe_packet, tables, threads,
                   wire_out, delivered, logged>>
    /\ main_flushed' = (wire_out' = wire_out)
    /\ UNCHANGED codec

\* unpubrel_packets after one iteration of the drain loop (main.rs 106-112)
unpubrel_after_drain(packet, unpubrel) ==
    IF packet.type = "PUBLISH"
    THEN IF packet.qos = QoS2
         THEN HashMap_insert(unpubrel, unwrap(packet.packet_id), packet)
         ELSE unpubrel
    ELSE IF packet.type = "PUBCOMP"
    THEN HashMap_remove(unpubrel, packet.packet_id)
    ELSE unpubrel

\* main.rs 101-121: one iteration of while result > i. Nothing is
\* delivered here, and a Pubrel leaves unpubrel_packets alone.
DrainStep ==
    /\ main_flushed
    /\ pc = "drain"
    /\ result > i
    /\ LET r == create_replay_packet_with_received_packet(buffer, i)
       IN IF r.panic
          THEN Panic /\ UNCHANGED <<i, unpubrel_packets, wire_out>>
          ELSE /\ unpubrel_packets' = unpubrel_after_drain(r.packet, unpubrel_packets)
               /\ wire_out' = IF r.replied_packet.type # "None"
                              THEN Written(PacketType_serialize(r.replied_packet))
                              ELSE wire_out
               /\ i' = r.next_i
               /\ pc' = "drain"
               /\ NoRead
    /\ UNCHANGED <<cmd, qos, result, connack_packet, publish_packet,
                   subscribe_packet, unpuback_packets, unpubrec_packets,
                   unpubcomp_packets, threads, delivered, logged>>
    /\ main_flushed' = (wire_out' = wire_out)
    /\ UNCHANGED codec

(***************************************************************************)
(* main(): the pub command                                                 *)
(***************************************************************************)
\* main.rs 129-153: build the Publish, write it, and enter it in the table
\* of its QoS
PublishSend ==
    /\ main_flushed
    /\ pc = "drain"
    /\ result <= i
    /\ cmd = "pub"
    /\ \E generated \in PacketIds :
         LET p == PublishPacket_new(FALSE, qos, FALSE, Topic, None, Message, generated)
         IN /\ publish_packet' = p
            /\ wire_out' = Written(PublishPacket_serialize(p))
            /\ unpuback_packets' = IF p.qos = QoS1
                                   THEN HashMap_insert(unpuback_packets, unwrap(p.packet_id), p)
                                   ELSE unpuback_packets
            /\ unpubrec_packets' = IF p.qos = QoS2
                                   THEN HashMap_insert(unpubrec_packets, unwrap(p.packet_id), p)
                                   ELSE unpubrec_packets
            /\ pc' = CASE p.qos = QoS0 -> "disconnect"
                       [] p.qos = QoS1 -> "wait_puback"
                       [] p.qos = QoS2 -> "wait_pubrec"
    /\ NoRead
    /\ UNCHANGED <<cmd, qos, result, i, connack_packet, subscribe_packet,
                   unpubrel_packets, unpubcomp_packets, threads, delivered, logged>>
    /\ main_flushed' = (wire_out' = wire_out)
    /\ UNCHANGED codec

\* main.rs 146-149: read, decode a Puback at the head of the buffer, remove
RecvPuback ==
    /\ main_flushed
    /\ pc = "wait_puback"
    /\ \E burst \in Bursts :
       LET d == PubackPacket_deserialize(BufferAfter(Concat(burst)))
       IN IF d.panic
          THEN ReadPanic(burst) /\ UNCHANGED <<unpuback_packets>>
          ELSE /\ Read(burst)
               /\ unpuback_packets' = HashMap_remove(unpuback_packets, d.packet.packet_id)
               /\ pc' = "disconnect"
    /\ UNCHANGED <<locals, unpubrec_packets, unpubrel_packets, unpubcomp_packets,
                   threads, wire_out, delivered, logged>>
    /\ main_flushed' = (wire_out' = wire_out)
    /\ UNCHANGED codec

\* main.rs 154-165: read, decode a Pubrec, remove, write the Pubrel, insert
RecvPubrec ==
    /\ main_flushed
    /\ pc = "wait_pubrec"
    /\ \E burst \in Bursts :
       LET d == PubrecPacket_deserialize(BufferAfter(Concat(burst)))
           pubrel_packet == [type |-> "PUBREL", packet_id |-> d.packet.packet_id]
       IN IF d.panic
          THEN ReadPanic(burst) /\ UNCHANGED <<unpubrec_packets, unpubcomp_packets, wire_out>>
          ELSE /\ Read(burst)
               /\ unpubrec_packets' = HashMap_remove(unpubrec_packets, d.packet.packet_id)
               /\ wire_out' = Written(PubrelPacket_serialize(pubrel_packet))
               /\ unpubcomp_packets' =
                    HashMap_insert(unpubcomp_packets, d.packet.packet_id, pubrel_packet)
               /\ pc' = "wait_pubcomp"
    /\ UNCHANGED <<locals, unpuback_packets, unpubrel_packets, threads,
                   delivered, logged>>
    /\ main_flushed' = (wire_out' = wire_out)
    /\ UNCHANGED codec

\* main.rs 167-170: read, decode a Pubcomp, remove
RecvPubcomp ==
    /\ main_flushed
    /\ pc = "wait_pubcomp"
    /\ \E burst \in Bursts :
       LET d == PubcompPacket_deserialize(BufferAfter(Concat(burst)))
       IN IF d.panic
          THEN ReadPanic(burst) /\ UNCHANGED <<unpubcomp_packets>>
          ELSE /\ Read(burst)
               /\ unpubcomp_packets' = HashMap_remove(unpubcomp_packets, d.packet.packet_id)
               /\ pc' = "disconnect"
    /\ UNCHANGED <<locals, unpuback_packets, unpubrec_packets, unpubrel_packets,
                   threads, wire_out, delivered, logged>>
    /\ main_flushed' = (wire_out' = wire_out)
    /\ UNCHANGED codec

(***************************************************************************)
(* main(): the sub command                                                 *)
(***************************************************************************)
\* main.rs 178-184: build the Subscribe and write it
SubscribeSend ==
    /\ main_flushed
    /\ pc = "drain"
    /\ result <= i
    /\ cmd = "sub"
    /\ \E generated \in PacketIds :
         LET p == [type |-> "SUBSCRIBE", packet_id |-> generated,
                   topic |-> Topic, qos |-> qos]
         IN /\ subscribe_packet' = p
            /\ wire_out' = Written(SubscribePacket_serialize(p))
    /\ pc' = "wait_suback"
    /\ NoRead
    /\ UNCHANGED <<cmd, qos, result, i, connack_packet, publish_packet,
                   tables, threads, delivered, logged>>
    /\ main_flushed' = (wire_out' = wire_out)
    /\ UNCHANGED codec

\* a comparison that takes every Suback for the awaited one
suback_matches_any(subscribe_id, suback_id) == TRUE
\* the comparison of main.rs 190
suback_matches(subscribe_id, suback_id) == subscribe_id = suback_id

\* main.rs 186-231: read, decode a Suback; return on a packet identifier
\* that is not the one sent; else set the Ctrl-C handler and spawn the
\* PINGREQ sender
RecvSuback ==
    /\ main_flushed
    /\ pc = "wait_suback"
    /\ \E burst \in Bursts :
       LET d == SubackPacket_deserialize(BufferAfter(Concat(burst)))
       IN IF d.panic
          THEN ReadPanic(burst) /\ UNCHANGED <<handler_set, pinger_started, logged>>
          ELSE /\ Read(burst)
               /\ IF ~suback_matches(subscribe_packet.packet_id, d.packet.packet_id)
                  THEN /\ logged' = Append(logged,
                                           [level |-> "error",
                                            what |-> "SUBACK Packet ID is not matched",
                                            packet_id |-> d.packet.packet_id])
                       /\ pc' = "returned"
                       /\ UNCHANGED <<handler_set, pinger_started>>
                  ELSE /\ handler_set' = TRUE
                       /\ pinger_started' = TRUE
                       /\ pc' = "loop"
                       /\ UNCHANGED logged
    /\ UNCHANGED <<locals, tables, wait_for_exit, handler_pc, pinger_pc, wire_out,
                   delivered>>
    /\ main_flushed' = (wire_out' = wire_out)
    /\ UNCHANGED codec

\* the packet consume_published_packet is called with in one iteration of
\* the receive loop (main.rs 240-256), NoPacket when it is not called
consumed_packet(packet, unpubrel) ==
    IF packet.type = "PUBLISH"
    THEN IF packet.qos = QoS2 THEN NoPacket ELSE packet
    ELSE IF packet.type = "PUBREL"
    THEN IF contains_key(unpubrel, packet.packet_id)
         THEN unpubrel[packet.packet_id]
         ELSE NoPacket
    ELSE NoPacket

\* unpubrel_packets after one iteration of the receive loop (main.rs 240-260)
unpubrel_after(packet, unpubrel) ==
    IF packet.type = "PUBLISH"
    THEN IF packet.qos = QoS2
         THEN HashMap_insert(unpubrel, unwrap(packet.packet_id), packet)
         ELSE unpubrel
    ELSE IF packet.type = "PUBREL"
    THEN HashMap_remove(unpubrel, packet.packet_id)
    ELSE IF packet.type = "PUBCOMP"
    THEN HashMap_remove(unpubrel, packet.packet_id)
    ELSE unpubrel

\* a loop that enters nothing in unpubcomp_packets
unpubcomp_unchanged(packet, unpubcomp) == unpubcomp

\* unpubcomp_packets after one iteration of the receive loop (main.rs 257)
unpubcomp_after(packet, unpubcomp) ==
    IF packet.type = "PUBREL"
    THEN HashMap_insert(unpubcomp, packet.packet_id, packet)
    ELSE unpubcomp

\* the warn! of main.rs 252-255, appended to the records when it is made
logged_after(packet, unpubrel, records) ==
    IF packet.type = "PUBREL" /\ ~contains_key(unpubrel, packet.packet_id)
    THEN Append(records, [level |-> "warn", what |-> "Unstored publish packet",
                          packet_id |-> packet.packet_id])
    ELSE records

\* a loop that is never left
breaks_never(flag) == FALSE
\* main.rs 262-264: the loop is left, before the reply, when the flag is set
breaks_before_reply(flag) == flag

\* main.rs 234-271: one iteration of the receive loop. Of the bytes a read
\* returns, the packet at index 0 is the only one decoded.
LoopStep ==
    /\ main_flushed
    /\ pc = "loop"
    /\ \E burst \in Bursts :
       LET r == create_replay_packet_with_received_packet(BufferAfter(Concat(burst)), 0)
           consumed == consumed_packet(r.packet, unpubrel_packets)
       IN IF r.panic \/ (consumed.type # "None" /\ ~from_utf8_ok(consumed.payload))
          THEN ReadPanic(burst) /\ UNCHANGED <<unpubrel_packets, unpubcomp_packets,
                                    delivered, logged, wire_out>>
          ELSE /\ Read(burst)
               /\ unpubrel_packets' = unpubrel_after(r.packet, unpubrel_packets)
               /\ unpubcomp_packets' = unpubcomp_after(r.packet, unpubcomp_packets)
               /\ delivered' = IF consumed.type # "None"
                               THEN Append(delivered, consumed.payload)
                               ELSE delivered
               /\ logged' = logged_after(r.packet, unpubrel_packets, logged)
               /\ IF breaks_before_reply(wait_for_exit)
                  THEN pc' = "disconnect" /\ UNCHANGED wire_out
                  ELSE /\ wire_out' = IF r.replied_packet.type # "None"
                                      THEN Written(PacketType_serialize(r.replied_packet))
                                      ELSE wire_out
                       /\ pc' = "loop"
    /\ UNCHANGED <<locals, unpuback_packets, unpubrec_packets, threads>>
    /\ main_flushed' = (wire_out' = wire_out)
    /\ UNCHANGED codec

(***************************************************************************)
(* main(): DISCONNECT                                                      *)
(***************************************************************************)
\* main.rs 276-279
Disconnect ==
    /\ main_flushed
    /\ pc = "disconnect"
    /\ wire_out' = Written(DisconnectPacket_serialize)
    /\ pc' = "exit"
    /\ NoRead
    /\ UNCHANGED <<locals, tables, threads, delivered, logged>>
    /\ main_flushed' = (wire_out' = wire_out)
    /\ UNCHANGED codec

\* main.rs 281-282: main() returns and the process, with its threads, ends
Exit ==
    /\ main_flushed
    /\ pc = "exit"
    /\ pc' = "done"
    /\ NoRead
    /\ UNCHANGED <<locals, tables, threads, wire_out, delivered, logged>>
    /\ main_flushed' = (wire_out' = wire_out)
    /\ UNCHANGED codec

(***************************************************************************)
(* The Ctrl-C handler thread and the PINGREQ sender thread                 *)
(***************************************************************************)
\* main.rs 203-213: a SIGINT arrives; the handler writes an Unsubscribe
SigintUnsubscribe ==
    /\ handler_set
    /\ Alive
    /\ handler_pc = "idle"
    /\ \E generated \in PacketIds :
         wire_out' = Written(UnsubscribePacket_serialize(
                                 [packet_id |-> generated, topic |-> Topic]))
    /\ handler_pc' = "flush"
    /\ Event
    /\ UNCHANGED <<pc, locals, tables, wait_for_exit, handler_set,
                   pinger_started, pinger_pc, main_flushed, delivered, logged>>
    /\ UNCHANGED codec

\* main.rs 215: the handler flushes its handle of the stream
SigintFlush ==
    /\ Alive
    /\ handler_pc = "flush"
    /\ handler_pc' = "flag"
    /\ NoRead
    /\ UNCHANGED <<pc, locals, tables, wait_for_exit, handler_set, pinger_started,
                   pinger_pc, main_flushed, wire_out, delivered, logged>>
    /\ UNCHANGED codec

\* a handler that empties a table when it sets the flag
SigintSetFlag_clearing ==
    /\ Alive
    /\ handler_pc = "flag"
    /\ wait_for_exit' = TRUE
    /\ handler_pc' = "idle"
    /\ unpubrel_packets' = HashMap_new
    /\ NoRead
    /\ UNCHANGED <<pc, locals, unpuback_packets, unpubrec_packets, unpubcomp_packets,
                   handler_set, pinger_started, pinger_pc,
                   main_flushed, wire_out, delivered, logged>>
    /\ UNCHANGED codec

\* main.rs 217: the handler sets the flag
SigintSetFlag ==
    /\ Alive
    /\ handler_pc = "flag"
    /\ wait_for_exit' = TRUE
    /\ handler_pc' = "idle"
    /\ NoRead
    /\ UNCHANGED <<pc, locals, tables, handler_set, pinger_started, pinger_pc,
                   main_flushed, wire_out, delivered, logged>>
    /\ UNCHANGED codec

\* main.rs 226-228: the sleep of 10 s ends and a Pingreq is written
Ping ==
    /\ pinger_started
    /\ Alive
    /\ pinger_pc = "sleep"
    /\ wire_out' = Written(PingreqPacket_serialize)
    /\ pinger_pc' = "flush"
    /\ Event
    /\ UNCHANGED <<pc, locals, tables, wait_for_exit, handler_set,
                   pinger_started, handler_pc, main_flushed, delivered, logged>>
    /\ UNCHANGED codec

\* main.rs 229: the PINGREQ sender flushes its handle and sleeps again
PingFlush ==
    /\ Alive
    /\ pinger_pc = "flush"
    /\ pinger_pc' = "sleep"
    /\ NoRead
    /\ UNCHANGED <<pc, locals, tables, wait_for_exit, handler_set, pinger_started,
                   handler_pc, main_flushed, wire_out, delivered, logged>>
    /\ UNCHANGED codec

\* stream.flush() of main(), after each of its writes (main.rs 95, 117, 139,
\* 164, 184, 269, 279). A TcpStream has no buffer of its own: the flush
\* changes nothing on the wire.
MainFlush ==
    /\ Alive
    /\ ~main_flushed
    /\ main_flushed' = TRUE
    /\ NoRead
    /\ UNCHANGED <<pc, locals, tables, threads, wire_out, delivered, logged>>
    /\ UNCHANGED codec

Next ==
    \/ Connect
    \/ ReadConnack
    \/ DrainStep
    \/ PublishSend
    \/ RecvPuback
    \/ RecvPubrec
    \/ RecvPubcomp
    \/ SubscribeSend
    \/ RecvSuback
    \/ LoopStep
    \/ Disconnect
    \/ Exit
    \/ MainFlush
    \/ SigintUnsubscribe
    \/ SigintFlush
    \/ SigintSetFlag
    \/ Ping
    \/ PingFlush

Spec == Init /\ [][Next]_vars

\* LoopStep is enabled: main() is at the read of the receive loop and the
\* broker has a packet to send.
LoopStepEnabled ==
    pc = "loop" /\ main_flushed /\ (n_events < MaxEvents \/ UnsubackAwaited)

\* The steps of LoopStep, among those of Next.
LoopStepTaken == pc = "loop" /\ n_reads' = n_reads + 1

\* The session with a main thread that goes on when it can, and a broker
\* that goes on sending while the receive loop reads (weak fairness of
\* LoopStep, written out).
SpecLive ==
    /\ Init /\ [][Next]_vars
    /\ ([]<>(~LoopStepEnabled) \/ []<><<LoopStepTaken>>_vars)
    /\ WF_vars(MainFlush)
    /\ WF_vars(Disconnect)

\* The types of the state.
TypeOK ==
    /\ pc \in {"connect", "connack", "drain", "wait_puback", "wait_pubrec",
               "wait_pubcomp", "wait_suback", "loop", "disconnect", "exit", "done",
               "returned", "panic"}
    /\ cmd \in {"pub", "sub"}
    /\ qos \in QoS
    /\ Len(buffer) <= BufferSize
    /\ wait_for_exit \in BOOLEAN
    /\ handler_pc \in {"idle", "flush", "flag"}
    /\ pinger_pc \in {"sleep", "flush"}
    /\ main_flushed \in BOOLEAN

(***************************************************************************)
(* The functions of packet.rs and qos.rs, called on their own              *)
(***************************************************************************)
\* Publish packets as PublishPacket::new builds them: a packet identifier
\* is there when the QoS is not 0.
CodecTopics == {<<97>>, <<97, 47, 98>>}
CodecPayloads == {<<>>, <<104>>, <<104, 101, 108, 108, 111>>}
PublishInputs ==
    {[type |-> "PUBLISH", dup |-> d, qos |-> q, retain |-> r, topic_name |-> t,
      packet_id |-> IF q = QoS0 THEN None ELSE Some(id), payload |-> pl] :
        d \in BOOLEAN, q \in QoS, r \in BOOLEAN, t \in CodecTopics,
        id \in PacketIds, pl \in CodecPayloads}

\* Lengths of packet bodies: the small ones, and those where the number of
\* length bytes changes, up to the first that is too large.
SmallLengths == 0 .. 130
LengthInputs ==
    SmallLengths \cup {16383, 16384, 2097151, 2097152, MaxRemainingLength,
                       MaxRemainingLength + 1}

\* Connack packets of four bytes, with every acknowledge-flags byte and
\* return codes on both sides of the table
ConnackInputs ==
    {<<32, 2, flags, code>> : flags \in {0, 1, 2, 3, 254, 255},
                              code \in 0..7 \cup {128, 255}}

\* A read buffer with a Publish packet at its head: the bytes after the
\* packet are those of an older or of a following packet, or 0.
TrailingBytes == {<<>>, <<171, 205, 239>>}
BufferInputs ==
    {[packet |-> p, trailing |-> t] : p \in PublishInputs, t \in TrailingBytes}

\* The options of the command line that ConnectPacket::new is called with,
\* each given or not
ConnectOptions ==
    [username : {None, Some(<<117>>)}, password : {None, Some(<<112>>)},
     client_id : {None, Some(ClientId)}, clean_session : BOOLEAN,
     will_flag : BOOLEAN, will_topic : {None, Some(Topic)},
     will_message : {None, Some(Message)}]

\* The arguments of PublishPacket::new: every QoS, with a packet identifier
\* supplied and without
PublishArguments ==
    [dup : BOOLEAN, qos : QoS, retain : BOOLEAN, topic_name : {Topic},
     packet_id : {None} \cup {Some(id) : id \in PacketIds}, payload : CodecPayloads]

\* The arguments of the calls.
\* Connect packets with every combination of the fields that the control
\* flags are made of; the will topic and message are there with the will flag
ConnectInputs ==
    {[type |-> "CONNECT", client_id |-> ClientId,
      username |-> u, password |-> pw, qos |-> q, will_retain |-> r,
      will_flag |-> w, clean_session |-> c, keep_alive |-> KeepAlive,
      will_topic |-> IF w THEN Some(Topic) ELSE None,
      will_message |-> IF w THEN Some(Message) ELSE None] :
        u \in {None, Some(<<117>>)}, pw \in {None, Some(<<112>>)}, q \in QoS,
        r \in BOOLEAN, w \in BOOLEAN, c \in BOOLEAN}

CodecInputs ==
    {[kind |-> "PublishPacket", value |-> p] : p \in PublishInputs}
    \cup {[kind |-> "length", value |-> n] : n \in LengthInputs}
    \cup {[kind |-> "u8", value |-> v] : v \in 0..255}
    \cup {[kind |-> "first byte", value |-> b] : b \in 0..255}
    \cup {[kind |-> "ConnectPacket", value |-> c] : c \in ConnectInputs}
    \cup {[kind |-> "Connack bytes", value |-> b] : b \in ConnackInputs}
    \cup {[kind |-> "Publish in buffer", value |-> b] : b \in BufferInputs}
    \cup {[kind |-> "Connect options", value |-> o] : o \in ConnectOptions}
    \cup {[kind |-> "Publish arguments", value |-> a] : a \in PublishArguments}

\* A function is about to be called, main() is not running.
InitCodec ==
    /\ Started("pub", QoS0)
    /\ codec_fn = "none"
    /\ codec_in \in CodecInputs
    /\ codec_out = <<>>

\* The call of function fn returns out.
Returns(fn, out) ==
    /\ codec_fn' = fn
    /\ codec_out' = out
    /\ UNCHANGED <<codec_in, session>>

\* PublishPacket::deserialize(&p.serialize()): the slice is the Vec that
\* serialize returned, of its length.
PublishRoundTrip ==
    /\ codec_fn = "none"
    /\ codec_in.kind = "PublishPacket"
    /\ LET bytes == PublishPacket_serialize(codec_in.value)
       IN Returns("PublishPacket::deserialize",
                  PublishPacket_deserialize_of(bytes, Len(bytes)))

\* A packet without its length bytes: the first byte, and a body of n bytes
\* of 255.
Unframed(n) == <<16>> \o [k \in 1..n |-> 255]

\* insert_remaining_length(&mut bytes) on a packet with a body of n bytes,
\* then extract_remaining_length(&bytes). Of a body too long to write down
\* the first byte stands for all: the two functions take from the body its
\* length and nothing else.
RemainingLength ==
    /\ codec_fn = "none"
    /\ codec_in.kind = "length"
    /\ LET n == codec_in.value
           framed == IF n \in SmallLengths
                     THEN insert_remaining_length(Unframed(n))
                     ELSE <<16>> \o length_bytes(n) \o <<255>>
       IN Returns("insert_remaining_length",
                  IF too_large(n)
                  THEN [panic |-> TRUE, bytes |-> <<>>, extracted |-> <<>>]
                  ELSE [panic |-> FALSE, bytes |-> framed,
                        extracted |-> extract_remaining_length(framed)])

\* QoS::from(v), the value back as u8, and PublishPacket::deserialize on
\* the buffer of main() holding a Publish whose QoS bits are the two low
\* bits of v.
QoSFrom ==
    /\ codec_fn = "none"
    /\ codec_in.kind = "u8"
    /\ LET v == codec_in.value
           q == QoS_from(v)
           header == <<48 + 2 * (v % 4), 7, 0, 1, 97, 0, 1, 104, 105>>
       IN Returns("QoS::from",
                  [panic |-> q \notin QoS,
                   value |-> q,
                   as_u8 |-> IF q \in QoS THEN QoS_as_u8(q) ELSE 0,
                   publish |-> PublishPacket_deserialize(header)])

\* PacketType::deserialize on a buffer whose first byte is b: the variant
\* the match selects, and what its deserialize returns.
PacketTypeDeserialize ==
    /\ codec_fn = "none"
    /\ codec_in.kind = "first byte"
    /\ LET b == codec_in.value
       IN Returns("PacketType::deserialize",
                  [variant |-> variant_of(b),
                   decoded |-> PacketType_deserialize(<<b, 2, 0, 1>>)])

\* ConnectPacket::serialize on a Connect packet
ConnectSerialize ==
    /\ codec_fn = "none"
    /\ codec_in.kind = "ConnectPacket"
    /\ Returns("ConnectPacket::serialize", ConnectPacket_serialize(codec_in.value))

\* ConnackPacket::deserialize on the bytes of a Connack
ConnackDeserialize ==
    /\ codec_fn = "none"
    /\ codec_in.kind = "Connack bytes"
    /\ Returns("ConnackPacket::deserialize", ConnackPacket_deserialize(codec_in.value))

\* PublishPacket::deserialize(&buffer) as main() calls it, on the buffer of
\* BufferSize bytes with the packet at its head
PublishDeserialize ==
    /\ codec_fn = "none"
    /\ codec_in.kind = "Publish in buffer"
    /\ Returns("PublishPacket::deserialize(&buffer)",
               PublishPacket_deserialize(
                   PublishPacket_serialize(codec_in.value.packet)
                   \o codec_in.value.trailing))

\* main.rs 83-94: ConnectPacket::new on the options, and the write of the
\* packet that it returns; a panic of new ends main() before the write
ConnectNew ==
    /\ codec_fn = "none"
    /\ codec_in.kind = "Connect options"
    /\ \E generated \in PacketIds :
         LET o == codec_in.value
             c == ConnectPacket_new(o.username, o.password, o.client_id, KeepAlive,
                                    o.clean_session, o.will_flag, o.will_topic,
                                    o.will_message, generated)
         IN Returns("ConnectPacket::new",
                    [panic |-> c.panic, packet |-> c.packet,
                     written |-> IF c.panic THEN <<>>
                                 ELSE <<ConnectPacket_serialize(c.packet)>>])

\* PublishPacket::new on its arguments
PublishNew ==
    /\ codec_fn = "none"
    /\ codec_in.kind = "Publish arguments"
    /\ \E generated \in PacketIds :
         LET a == codec_in.value
         IN Returns("PublishPacket::new",
                    PublishPacket_new(a.dup, a.qos, a.retain, a.topic_name,
                                      a.packet_id, a.payload, generated))

NextCodec ==
    \/ PublishRoundTrip
    \/ RemainingLength
    \/ QoSFrom
    \/ PacketTypeDeserialize
    \/ ConnectSerialize
    \/ ConnackDeserialize
    \/ PublishDeserialize
    \/ ConnectNew
    \/ PublishNew

SpecCodec == InitCodec /\ [][NextCodec]_vars

\* C16: for every Publish packet p (any QoS, dup and retain, any topic, any
\* payload, the empty one too; a packet identifier when the QoS is not 0),
\* PublishPacket::deserialize(p.serialize()) returns a packet with the dup,
\* QoS, retain, topic name, packet identifier and payload of p.
C16_PublishRoundTrip ==
    codec_fn = "PublishPacket::deserialize"
    => /\ ~codec_out.panic
       /\ codec_out.packet = codec_in.value

\* The number of length bytes of a remaining length n.
LengthBytesOf(n) ==
    IF n < 128 THEN 1 ELSE IF n < 16384 THEN 2 ELSE IF n < 2097152 THEN 3 ELSE 4

\* C17: for a remaining length n of 0 to 268435455, insert_remaining_length
\* inserts 1 to 4 length bytes right after byte 0 and leaves byte 0 and the
\* body as they were, and extract_remaining_length of the result returns
\* (n, 1 + the number of length bytes); 3 is encoded as 03, 130 as 82 01,
\* which decodes to (130, 3). For 268435456 the encoding fails.
C17_RemainingLength ==
    codec_fn = "insert_remaining_length"
    => LET n == codec_in.value
           k == LengthBytesOf(n)
           out == codec_out
       IN IF n > 268435455
          THEN out.panic
          ELSE /\ ~out.panic
               /\ k \in 1..4
               /\ out.bytes[1] = 16
               /\ \A j \in (k + 2)..Len(out.bytes) : out.bytes[j] = 255
               /\ n \in SmallLengths => Len(out.bytes) = 1 + k + n
               /\ out.extracted = <<n, 1 + k>>
               /\ n = 3 => SubSeq(out.bytes, 2, 2) = <<3>>
               /\ n = 130 => SubSeq(out.bytes, 2, 3) = <<130, 1>>
               /\ \A j \in 2..k : out.bytes[j] >= 128
               /\ out.bytes[k + 1] < 128

\* C17 happens: a body of 130 bytes got its two length bytes.
C17_Witness ==
    /\ codec_fn = "insert_remaining_length"
    /\ codec_in.value = 130
    /\ codec_out.extracted = <<130, 3>>

\* C18: the conversion of a number to a QoS maps 0, 1, 2 to QoS0, QoS1,
\* QoS2, one to one, and back to the same number; every other value, the
\* bit pattern 3 in the first byte of a Publish among them, is an error and
\* yields no QoS.
C18_QoSConversion ==
    codec_fn = "QoS::from"
    => LET v == codec_in.value
           out == codec_out
       IN /\ v = 0 => ~out.panic /\ out.value = QoS0 /\ out.as_u8 = 0
          /\ v = 1 => ~out.panic /\ out.value = QoS1 /\ out.as_u8 = 1
          /\ v = 2 => ~out.panic /\ out.value = QoS2 /\ out.as_u8 = 2
          /\ v > 2 => out.panic /\ out.value \notin QoS
          /\ v % 4 = 3 => out.publish.panic
          /\ v % 4 # 3 => ~out.publish.panic /\ QoS_as_u8(out.publish.packet.qos) = v % 4

\* C18 happens: 3 was converted, and a Publish with the QoS bits 11 decoded.
C18_Witness ==
    /\ codec_fn = "QoS::from"
    /\ codec_in.value = 3
    /\ codec_out.panic /\ codec_out.publish.panic

\* The packet types of MQTT 3.1.1, in the order of their numbers 1 to 14.
PacketTypeNames ==
    <<"CONNECT", "CONNACK", "PUBLISH", "PUBACK", "PUBREC", "PUBREL", "PUBCOMP",
      "SUBSCRIBE", "SUBACK", "UNSUBSCRIBE", "UNSUBACK", "PINGREQ", "PINGRESP",
      "DISCONNECT">>

\* C19: PacketType::deserialize selects the decoder by the high nibble of
\* the first byte and by nothing else: the nibbles 1 to 14 select Connect,
\* Connack, Publish, Puback, Pubrec, Pubrel, Pubcomp, Subscribe, Suback,
\* Unsubscribe, Unsuback, Pingreq, Pingresp, Disconnect in this order; the
\* nibbles 0 and 15 are a fatal error and no packet is returned.
C19_DispatchByNibble ==
    codec_fn = "PacketType::deserialize"
    => LET nibble == codec_in.value \div 16
           out == codec_out
       IN /\ nibble \in 1..14 => out.variant = PacketTypeNames[nibble]
          /\ nibble \in {0, 15} => /\ out.variant = "unimplemented"
                                   /\ out.decoded.panic
                                   /\ out.decoded.packet = NoPacket
          /\ ~out.decoded.panic => out.decoded.packet.type = out.variant

\* C19 happens: the byte 3b, a Publish with flag bits set, was dispatched,
\* and so was the byte f0.
C19_Witness ==
    /\ codec_fn = "PacketType::deserialize"
    /\ \/ codec_in.value = 59 /\ codec_out.variant = "PUBLISH"
       \/ codec_in.value = 240 /\ codec_out.decoded.panic

\* The byte of a serialized Connect packet that follows the fixed header
\* (one byte and a one-byte remaining length), the protocol name and the
\* protocol level.
ConnectFlagsOf(bytes) == bytes[10]

\* C20: the control-flag byte of a serialized Connect packet has the username
\* in bit 7, the password in bit 6, will_retain in bit 5, the will QoS in
\* bits 4 and 3, will_flag in bit 2, clean_session in bit 1 and 0 in bit 0,
\* whatever the fields are; clean session alone gives 0b0000_0010, username,
\* password and clean session 0b1100_0010, will flag and clean session
\* 0b0000_0110.
C20_ConnectFlags ==
    codec_fn = "ConnectPacket::serialize"
    => LET p == codec_in.value
           flags == ConnectFlagsOf(codec_out)
           only(u, pw, w) == /\ is_some(p.username) = u /\ is_some(p.password) = pw
                             /\ p.will_flag = w /\ p.clean_session
                             /\ ~p.will_retain /\ p.qos = QoS0
       IN /\ codec_out[2] < 128
          /\ SubSeq(codec_out, 3, 9) = <<0, 4, 77, 81, 84, 84, 4>>
          /\ flags \in 0..255
          /\ flags \div 128 = Bit(is_some(p.username))
          /\ (flags \div 64) % 2 = Bit(is_some(p.password))
          /\ (flags \div 32) % 2 = Bit(p.will_retain)
          /\ (flags \div 8) % 4 = QoS_as_u8(p.qos)
          /\ (flags \div 4) % 2 = Bit(p.will_flag)
          /\ (flags \div 2) % 2 = Bit(p.clean_session)
          /\ flags % 2 = 0
          /\ only(FALSE, FALSE, FALSE) => flags = 2
          /\ only(TRUE, TRUE, FALSE) => flags = 194
          /\ only(FALSE, FALSE, TRUE) => flags = 6

\* C20 happens: a Connect packet with a will of QoS 2, retained, a username
\* and no password was serialized.
C20_Witness ==
    /\ codec_fn = "ConnectPacket::serialize"
    /\ codec_in.value.qos = QoS2 /\ codec_in.value.will_retain
    /\ codec_in.value.will_flag
    /\ is_some(codec_in.value.username) /\ ~is_some(codec_in.value.password)
    /\ ConnectFlagsOf(codec_out) = 128 + 32 + 16 + 4 + 2 * Bit(codec_in.value.clean_session)

\* C21: ConnackPacket::deserialize on a Connack of four bytes returns the
\* size 4, sp the lowest bit of the third byte (the acknowledge flags),
\* accepted with no refused_reason exactly on the return code 0, not
\* accepted with a reason on the codes 1 to 5, and no Connack on any other
\* code; 20 02 00 00 is {sp: false, accepted: true, refused_reason: None}.
C21_ConnackDecode ==
    codec_fn = "ConnackPacket::deserialize"
    => LET bytes == codec_in.value
           code == bytes[4]
           out == codec_out
       IN /\ code \in 0..5 => /\ ~out.panic
                              /\ out.size = 4
                              /\ out.packet.type = "CONNACK"
                              /\ out.packet.sp = (bytes[3] % 2 = 1)
                              /\ out.packet.accepted = (code = 0)
                              /\ is_some(out.packet.refused_reason) = (code # 0)
          /\ code \notin 0..5 => out.panic /\ out.packet = NoPacket
          /\ bytes = <<32, 2, 0, 0>>
             => out.packet = [type |-> "CONNACK", sp |-> FALSE, accepted |-> TRUE,
                              refused_reason |-> None]

\* C21 happens: a Connack with the return code 4 and the session-present
\* bit was decoded and is a refusal.
C21_Witness ==
    /\ codec_fn = "ConnackPacket::deserialize"
    /\ codec_in.value = <<32, 2, 1, 4>>
    /\ codec_out.packet.sp /\ ~codec_out.packet.accepted
    /\ codec_out.packet.refused_reason = Some("bad user name or password")

\* C27: PublishPacket::deserialize on a buffer with a Publish packet at its
\* head returns as size the length of the packet (fixed header and
\* remaining length) and takes nothing from the bytes after the packet:
\* with QoS 1 and 2 the packet identifier is the two bytes after the topic
\* name, and the payload is what is left of the remaining length after the
\* topic field and the identifier.
C27_PublishDecodeInBounds ==
    codec_fn = "PublishPacket::deserialize(&buffer)"
    => LET p == codec_in.value.packet
           bytes == PublishPacket_serialize(p)
           out == codec_out
       IN /\ ~out.panic
          /\ out.size = Len(bytes)
          /\ out.packet.topic_name = p.topic_name
          /\ out.packet.packet_id = p.packet_id
          /\ out.packet.payload = p.payload

\* C28: ConnectPacket::new returns no Connect packet with a password and
\* no username, and none with the will flag and without a will topic or a
\* will message: on such options it ends with an error and nothing is
\* written to the stream, and on all other options it returns the packet.
C28_ConnectNewRejects ==
    codec_fn = "ConnectPacket::new"
    => LET o == codec_in.value
           out == codec_out
           bad == \/ is_some(o.password) /\ ~is_some(o.username)
                  \/ o.will_flag /\ (~is_some(o.will_topic) \/ ~is_some(o.will_message))
       IN /\ bad => out.panic /\ out.written = <<>>
          /\ ~bad => /\ ~out.panic
                     /\ out.packet.type = "CONNECT"
                     /\ out.packet.username = o.username
                     /\ out.packet.password = o.password
                     /\ out.packet.will_flag = o.will_flag
                     /\ out.packet.will_topic = o.will_topic
                     /\ out.packet.will_message = o.will_message
                     /\ Len(out.written) = 1
          /\ ~out.panic
             => /\ is_some(out.packet.password) => is_some(out.packet.username)
                /\ out.packet.will_flag
                   => is_some(out.packet.will_topic) /\ is_some(out.packet.will_message)

\* C28 happens: new was called with a password and no username, and with
\* the will flag and no will message.
C28_Witness ==
    /\ codec_fn = "ConnectPacket::new"
    /\ \/ is_some(codec_in.value.password) /\ ~is_some(codec_in.value.username)
          /\ ~codec_in.value.will_flag
       \/ codec_in.value.will_flag /\ ~is_some(codec_in.value.will_message)
          /\ is_some(codec_in.value.will_topic) /\ ~is_some(codec_in.value.password)
    /\ codec_out.panic

\* C29: a Publish packet that PublishPacket::new builds, and one that
\* PublishPacket::deserialize returns, has a packet identifier when its QoS
\* is 1 or 2 (the one supplied, or a generated one) and has none when its
\* QoS is 0, whether the caller supplied one or not.
C29_PacketIdIffQos ==
    /\ codec_fn = "PublishPacket::new"
       => /\ is_some(codec_out.packet_id) = (codec_out.qos # QoS0)
          /\ codec_out.qos = codec_in.value.qos
          /\ is_some(codec_in.value.packet_id) /\ codec_out.qos # QoS0
             => codec_out.packet_id = codec_in.value.packet_id
    /\ codec_fn = "PublishPacket::deserialize(&buffer)" /\ ~codec_out.panic
       => is_some(codec_out.packet.packet_id) = (codec_out.packet.qos # QoS0)

(***************************************************************************)
(* Properties of the receive loop                                          *)
(***************************************************************************)
\* A step of the receive loop in which the read returns.
LoopReads == pc = "loop" /\ n_reads' = n_reads + 1

\* The packets of the broker, as they are on the wire.
Pubrel(id) == PubrelPacket_serialize([packet_id |-> id])
Pubrec(id) == PubrecPacket_serialize([packet_id |-> id])
Puback(id) == PubackPacket_serialize([packet_id |-> id])
Pubcomp(id) == PubcompPacket_serialize([packet_id |-> id])

\* C1: in the receive loop, an inbound Publish of QoS 2 with packet
\* identifier id is not delivered in that step, is stored in
\* unpubrel_packets under id, and is answered by a Pubrec with the same id.
C1_Qos2PublishHeldAndPubrec ==
    [][\A id \in PacketIds, pl \in Payloads :
         LoopReads /\ Head(received') = BrokerPublish(QoS2, id, pl)
         => /\ delivered' = delivered
            /\ contains_key(unpubrel_packets', id)
            /\ wire_out' = Append(wire_out, Pubrec(id))]_vars

\* C2: in the receive loop, an inbound Pubrel(id) whose id is in
\* unpubrel_packets has the held payload delivered in that step, id removed
\* from unpubrel_packets, id inserted into unpubcomp_packets, and a Pubcomp
\* with the same id written as the reply.
C2_PubrelReleasesAndPubcomp ==
    [][\A id \in PacketIds :
         LoopReads /\ Head(received') = Pubrel(id) /\ contains_key(unpubrel_packets, id)
         => /\ delivered' = Append(delivered, unpubrel_packets[id].payload)
            /\ ~contains_key(unpubrel_packets', id)
            /\ contains_key(unpubcomp_packets', id)
            /\ wire_out' = Append(wire_out, Pubcomp(id))]_vars

\* C3: in the receive loop, an inbound Publish of QoS 0 is delivered in that
\* step with no reply and no change of the four tables; an inbound Publish
\* of QoS 1 with identifier id is delivered in that step, the reply is a
\* Puback with the same id, and no table gains an entry.
C3_Qos0AndQos1PublishDelivered ==
    [][\A pl \in Payloads :
         /\ LoopReads /\ Head(received') = BrokerPublish(QoS0, 0, pl)
            => /\ delivered' = Append(delivered, pl)
               /\ wire_out' = wire_out
               /\ tables' = tables
         /\ \A id \in PacketIds :
              LoopReads /\ Head(received') = BrokerPublish(QoS1, id, pl)
              => /\ delivered' = Append(delivered, pl)
                 /\ wire_out' = Append(wire_out, Puback(id))
                 /\ DOMAIN unpuback_packets' \subseteq DOMAIN unpuback_packets
                 /\ DOMAIN unpubrec_packets' \subseteq DOMAIN unpubrec_packets
                 /\ DOMAIN unpubrel_packets' \subseteq DOMAIN unpubrel_packets
                 /\ DOMAIN unpubcomp_packets' \subseteq DOMAIN unpubcomp_packets]_vars

(***************************************************************************)
(* Properties of the pub command                                           *)
(***************************************************************************)
\* The packet identifier of the Publish of the pub command.
X == unwrap(publish_packet.packet_id)

\* A step in which the read that main() is blocked in at `at` returns.
ReadsAt(at) == pc = at /\ n_reads' = n_reads + 1

\* C4: in the pub command with QoS 1 and identifier X, X is in
\* unpuback_packets once the Publish is sent; once Puback(X) is received
\* unpuback_packets holds X no more and the command goes on to the
\* Disconnect.
C4_Qos1Handshake ==
    [][/\ pc = "drain" /\ pc' = "wait_puback"
          => /\ wire_out' = Append(wire_out, PublishPacket_serialize(publish_packet'))
             /\ contains_key(unpuback_packets', unwrap(publish_packet'.packet_id))
       /\ pc' = "wait_puback" => contains_key(unpuback_packets', unwrap(publish_packet'.packet_id))
       /\ ReadsAt("wait_puback") /\ Head(received') = Puback(X)
          => /\ ~contains_key(unpuback_packets', X)
             /\ pc' = "disconnect"
       /\ pc = "disconnect" /\ pc' # pc
          => /\ wire_out' = Append(wire_out, DisconnectPacket_serialize)
             /\ pc' = "exit"]_vars

\* C4 happens: the pub command of QoS 1 has received Puback(X) and is about
\* to send the Disconnect.
C4_Witness ==
    /\ cmd = "pub" /\ qos = QoS1 /\ pc = "disconnect"
    /\ Head(received) = Puback(X)
    /\ ~contains_key(unpuback_packets, X)

\* C5: in the pub command with QoS 2 and identifier X the exchange is, in
\* this order and no other: Publish(X) sent and X inserted into
\* unpubrec_packets; Pubrec(X) received and X removed from unpubrec_packets;
\* Pubrel(X) sent and X inserted into unpubcomp_packets; Pubcomp(X) received
\* and X removed from unpubcomp_packets. When the command returns from the
\* exchange none of the four tables contains X.
C5_Qos2Handshake ==
    [][/\ pc = "drain" /\ pc' = "wait_pubrec"
          => /\ wire_out' = Append(wire_out, PublishPacket_serialize(publish_packet'))
             /\ contains_key(unpubrec_packets', unwrap(publish_packet'.packet_id))
       /\ pc = "wait_pubrec" /\ pc' = "wait_pubcomp"
          => /\ Head(received') = Pubrec(X)
             /\ ~contains_key(unpubrec_packets', X)
             /\ wire_out' = Append(wire_out, Pubrel(X))
             /\ contains_key(unpubcomp_packets', X)
       /\ pc = "wait_pubcomp" /\ pc' = "disconnect"
          => /\ Head(received') = Pubcomp(X)
             /\ ~contains_key(unpuback_packets', X)
             /\ ~contains_key(unpubrec_packets', X)
             /\ ~contains_key(unpubrel_packets', X)
             /\ ~contains_key(unpubcomp_packets', X)]_vars

\* C6: an acknowledgment (Puback, Pubrec, Pubcomp) whose identifier has no
\* entry in the table of its kind is reported; when it is the reply the pub
\* command was waiting for, the command fails and does not go on as after
\* the awaited reply.
C6_UnknownAckReported ==
    [][\A id \in PacketIds :
         /\ ReadsAt("wait_puback") /\ Head(received') = Puback(id)
              /\ ~contains_key(unpuback_packets, id)
            => Len(logged') > Len(logged) /\ pc' # "disconnect"
         /\ ReadsAt("wait_pubrec") /\ Head(received') = Pubrec(id)
              /\ ~contains_key(unpubrec_packets, id)
            => Len(logged') > Len(logged) /\ pc' # "wait_pubcomp"
         /\ ReadsAt("wait_pubcomp") /\ Head(received') = Pubcomp(id)
              /\ ~contains_key(unpubcomp_packets, id)
            => Len(logged') > Len(logged) /\ pc' # "disconnect"]_vars

(***************************************************************************)
(* Properties of the sub command                                           *)
(***************************************************************************)
\* C7: in the receive loop, on an inbound Pubrel(id) whose id is not in
\* unpubrel_packets nothing is delivered, a warning is logged, the process
\* does not end on it, and the Pubcomp(id) is written all the same.
C7_UnknownPubrelWarned ==
    [][\A id \in PacketIds :
         LoopReads /\ Head(received') = Pubrel(id) /\ ~contains_key(unpubrel_packets, id)
         => /\ delivered' = delivered
            /\ Len(logged') = Len(logged) + 1
            /\ logged'[Len(logged')].level = "warn"
            /\ pc' \notin {"panic", "returned"}
            /\ wire_out' = Append(wire_out, Pubcomp(id))]_vars

\* C8: an inbound Pubcomp(id) that the drain after the Connack or the
\* receive loop processes has id removed from unpubcomp_packets, leaves the
\* other three tables as they are, and does not end the process.
C8_PubcompRemoves ==
    [][\A id \in PacketIds :
         \/ LoopReads /\ Head(received') = Pubcomp(id)
         \/ pc = "drain" /\ result > i /\ Bytes(buffer, i, i + 4) = Pubcomp(id)
         => /\ pc' # "panic"
            /\ unpubcomp_packets' = HashMap_remove(unpubcomp_packets, id)
            /\ UNCHANGED <<unpuback_packets, unpubrec_packets, unpubrel_packets>>]_vars

\* C9: after a Connack that refuses the connection (return code 1 to 5) the
\* session is over: neither a Publish nor a Subscribe is written and the
\* command asked for is not run.
C9_RefusedConnackAborts ==
    connack_packet.type = "CONNACK" /\ ~connack_packet.accepted
    => /\ \A k \in DOMAIN wire_out : wire_out[k][1] \div 16 \notin {3, 8}
       /\ pc \notin {"wait_puback", "wait_pubrec", "wait_pubcomp", "wait_suback", "loop"}

\* C10: in the sub command, on a Suback whose packet identifier is not the
\* one of the Subscribe sent, the subscribe fails: the PINGREQ sender, the
\* Ctrl-C handler and the receive loop are never started, and nothing is
\* read or processed afterwards.
C10_SubackMismatchFails ==
    [][/\ \A id \in PacketIds :
            ReadsAt("wait_suback") /\ Head(received') = BrokerSuback(id)
              /\ id # subscribe_packet.packet_id
            => /\ pc' = "returned"
               /\ ~handler_set' /\ ~pinger_started'
       /\ pc = "returned" => UNCHANGED vars]_vars

\* C10 happens: the Suback read carries another identifier than the
\* Subscribe, and main() has returned.
C10_Witness ==
    /\ pc = "returned"
    /\ \E id \in PacketIds : /\ Head(received) = BrokerSuback(id)
                            /\ id # subscribe_packet.packet_id
    /\ ~handler_set /\ ~pinger_started

(***************************************************************************)
(* Properties of the threads                                               *)
(***************************************************************************)
\* The packets of the broker that the receive loop has to answer.
MandatesReply(bytes) ==
    \/ \E q \in {QoS1, QoS2}, id \in PacketIds, pl \in Payloads :
         bytes = BrokerPublish(q, id, pl)
    \/ \E id \in PacketIds : bytes = Pubrel(id)

\* C11: when the shutdown flag is set while the receive loop processes a
\* packet that has to be answered (Publish of QoS 1 or 2, Pubrel), the reply
\* is written before the loop is left for the Disconnect.
C11_ReplyBeforeExit ==
    [][LoopReads /\ wait_for_exit /\ MandatesReply(Head(received')) /\ pc' = "disconnect"
       => /\ Len(wire_out') = Len(wire_out) + 1
          /\ wire_out'[Len(wire_out')][1] \div 16 \in {4, 5, 7}]_vars

\* A writer has written and not yet flushed.
WritePending == ~main_flushed \/ handler_pc = "flush" \/ pinger_pc = "flush"

\* C12: the writes of the receive loop, the PINGREQ sender and the Ctrl-C
\* handler to the stream are serialized: a writer has ended its write and
\* its flush before another writer begins its write.
C12_WritesSerialized ==
    [][wire_out' # wire_out => ~WritePending]_vars

\* The kinds of the packets written so far: the high nibbles of their first bytes.
KindsWritten == [k \in DOMAIN wire_out |-> wire_out[k][1] \div 16]
DisconnectSent == \E k \in DOMAIN wire_out : KindsWritten[k] = 14

\* C13: in the sub command an Unsubscribe is written before the Disconnect
\* is, and once the flag is set and the broker goes on sending (Unsuback,
\* Pingresp) the Disconnect is written in the end.
C13_ShutdownOrder ==
    /\ [](cmd = "sub" => \A k \in DOMAIN wire_out :
            KindsWritten[k] = 14 => \E j \in 1..(k - 1) : KindsWritten[j] = 10)
    /\ (cmd = "sub" /\ pc = "loop" /\ wait_for_exit)
         ~> \/ DisconnectSent
            \/ pc = "panic" /\ Head(received) \notin {BrokerUnsuback(0), BrokerPingresp}

\* C13 happens: the flag was set, the loop read an Unsuback and was left,
\* and the Disconnect is written after the Unsubscribe.
C13_Witness ==
    /\ cmd = "sub" /\ wait_for_exit /\ DisconnectSent
    /\ Head(received) = BrokerUnsuback(0)

(***************************************************************************)
(* Properties of the drain after the Connack                               *)
(***************************************************************************)
\* A step of the drain: the packet at index i of the buffer is processed.
DrainProcesses == pc = "drain" /\ result > i /\ i' # i

\* C14: a packet read together with the Connack is processed as the receive
\* loop would process it: the delivery, the change of the tables and the
\* reply are those of the loop (a Publish of QoS 0 or 1 is delivered, a
\* Pubrel releases and delivers the held Publish of QoS 2).
C14_DrainAsLoop ==
    [][DrainProcesses =>
         LET r == create_replay_packet_with_received_packet(buffer, i)
             consumed == consumed_packet(r.packet, unpubrel_packets)
         IN /\ delivered' = IF consumed.type # "None"
                            THEN Append(delivered, consumed.payload)
                            ELSE delivered
            /\ unpubrel_packets' = unpubrel_after(r.packet, unpubrel_packets)
            /\ unpubcomp_packets' = unpubcomp_after(r.packet, unpubcomp_packets)
            /\ wire_out' = IF r.replied_packet.type # "None"
                           THEN Append(wire_out, PacketType_serialize(r.replied_packet))
                           ELSE wire_out]_vars

\* C15: in the receive loop every inbound packet is decoded and reacted to,
\* in the order of arrival: of two packets that one read returns the second
\* is processed too. Here the second is a Publish of QoS 0, whose reaction
\* is the delivery of its payload.
C15_EveryPacketProcessed ==
    [][\A pl \in Payloads :
         /\ LoopReads /\ pc' # "panic"
         /\ Len(received') >= 2
         /\ received'[2] = BrokerPublish(QoS0, 0, pl)
         => /\ Len(delivered') > Len(delivered)
            /\ delivered'[Len(delivered')] = pl]_vars


(***************************************************************************)
(* Properties of the tables                                                *)
(***************************************************************************)
\* No entry of the four tables is lost in the step.
NoEntryLost ==
    /\ \A k \in DOMAIN unpuback_packets :
         contains_key(unpuback_packets', k) /\ unpuback_packets'[k] = unpuback_packets[k]
    /\ \A k \in DOMAIN unpubrec_packets :
         contains_key(unpubrec_packets', k) /\ unpubrec_packets'[k] = unpubrec_packets[k]
    /\ \A k \in DOMAIN unpubrel_packets :
         contains_key(unpubrel_packets', k) /\ unpubrel_packets'[k] = unpubrel_packets[k]
    /\ \A k \in DOMAIN unpubcomp_packets :
         contains_key(unpubcomp_packets', k) /\ unpubcomp_packets'[k] = unpubcomp_packets[k]

\* C22: a step of main() that reads an acknowledgment (the Puback, Pubrec
\* or Pubcomp that the pub command waits for, a Pubrel or a Pubcomp in the
\* receive loop) whose identifier is not in the table that the step removes
\* from, leaves that table as it is, takes no entry out of any of the four
\* tables, and does not end the session with a panic.
C22_AbsentRemovalNoOp ==
    [][\A id \in PacketIds :
         /\ ReadsAt("wait_puback") /\ Head(received') = Puback(id)
            /\ ~contains_key(unpuback_packets, id)
            => pc' # "panic" /\ unpuback_packets' = unpuback_packets /\ NoEntryLost
         /\ ReadsAt("wait_pubrec") /\ Head(received') = Pubrec(id)
            /\ ~contains_key(unpubrec_packets, id)
            => pc' # "panic" /\ unpubrec_packets' = unpubrec_packets /\ NoEntryLost
         /\ ReadsAt("wait_pubcomp") /\ Head(received') = Pubcomp(id)
            /\ ~contains_key(unpubcomp_packets, id)
            => pc' # "panic" /\ unpubcomp_packets' = unpubcomp_packets /\ NoEntryLost
         /\ LoopReads /\ Head(received') \in {Pubrel(id), Pubcomp(id)}
            /\ ~contains_key(unpubrel_packets, id)
            => pc' # "panic" /\ unpubrel_packets' = unpubrel_packets /\ NoEntryLost]_vars


(***************************************************************************)
(* Properties of the receiver of QoS 2 messages                            *)
(***************************************************************************)
\* The Publish packets of QoS q that the broker sends.
PublishesOf(q) == {BrokerPublish(q, id, pl) : id \in PacketIds, pl \in Payloads}

\* C23: in the sub command a QoS 2 payload is not delivered before a Pubrel
\* with its identifier is received, and is delivered once at most. On the
\* table that holds the payloads: a QoS 2 Publish with identifier id is held
\* under id and under no other key, and is not delivered by the step that
\* reads it (a duplicate takes the place of the one held); a step delivers
\* one payload at most; a step that delivers on another packet than a
\* Publish of QoS 0 or 1 has read Pubrel(k) for a held k, delivers the
\* payload held under k, and k is held no more after it, so that a second
\* Pubrel(k) delivers nothing.
C23_Qos2DeliveredOnRelease ==
    [][/\ \A id \in PacketIds :
            LoopReads /\ Head(received') \in PublishesOf(QoS2)
            /\ Head(received') \in {BrokerPublish(QoS2, id, pl) : pl \in Payloads}
            => /\ delivered' = delivered
               /\ pc' # "panic" => /\ contains_key(unpubrel_packets', id)
                                   /\ DOMAIN unpubrel_packets' = DOMAIN unpubrel_packets \cup {id}
       /\ delivered' # delivered
          => /\ LoopReads
             /\ Len(delivered') = Len(delivered) + 1
             /\ SubSeq(delivered', 1, Len(delivered)) = delivered
             /\ \/ Head(received') \in PublishesOf(QoS0) \cup PublishesOf(QoS1)
                \/ \E k \in DOMAIN unpubrel_packets :
                     /\ Head(received') = Pubrel(k)
                     /\ delivered'[Len(delivered')] = unpubrel_packets[k].payload
                     /\ ~contains_key(unpubrel_packets', k)]_vars


(***************************************************************************)
(* Properties of the end of the pub command                                *)
(***************************************************************************)
\* The number of packets of kind k (the high nibble of the first byte)
\* written to the stream.
WrittenOfKind(k) == Cardinality({n \in DOMAIN wire_out : KindsWritten[n] = k})

\* C24: in the pub command main() comes to the Disconnect, which it writes
\* nowhere else, with QoS 0 by the step that writes the Publish, with QoS 1
\* by a step that reads a Puback, with QoS 2 by a step that reads a Pubcomp
\* (after one that read a Pubrec); while it waits for the reply and no read
\* returns it writes nothing and stays where it is; the Publish and the
\* Pubrel are written once at most.
C24_DisconnectAfterHandshake ==
    [][cmd = "pub"
       => /\ pc' = "disconnect" /\ pc # "disconnect"
             => \/ /\ qos = QoS0 /\ pc = "drain"
                   /\ wire_out' = Append(wire_out, PublishPacket_serialize(publish_packet'))
                \/ /\ qos = QoS1 /\ ReadsAt("wait_puback")
                   /\ \E id \in PacketIds : Head(received') = Puback(id)
                \/ /\ qos = QoS2 /\ ReadsAt("wait_pubcomp")
                   /\ \E id \in PacketIds : Head(received') = Pubcomp(id)
          /\ pc' = "wait_pubcomp" /\ pc # "wait_pubcomp"
             => /\ qos = QoS2 /\ ReadsAt("wait_pubrec")
                /\ \E id \in PacketIds : Head(received') = Pubrec(id)
          /\ WrittenOfKind(14)' > WrittenOfKind(14) => pc = "disconnect"
          /\ pc \in {"wait_puback", "wait_pubrec", "wait_pubcomp"} /\ n_reads' = n_reads
             => wire_out' = wire_out /\ pc' = pc
          /\ WrittenOfKind(3)' <= 1 /\ WrittenOfKind(6)' <= 1]_vars

\* C24 happens: the pub command with QoS 2 has read a Pubcomp and written
\* the Disconnect.
C24_Witness ==
    /\ cmd = "pub" /\ qos = QoS2 /\ pc = "exit"
    /\ \E id \in PacketIds : Head(received) = Pubcomp(id)
    /\ WrittenOfKind(14) = 1 /\ WrittenOfKind(3) = 1 /\ WrittenOfKind(6) = 1


(***************************************************************************)
(* Properties of the threads                                               *)
(***************************************************************************)
\* A step of the Ctrl-C handler, a step of the PINGREQ sender.
HandlerSteps == handler_pc' # handler_pc
PingerSteps == pinger_pc' # pinger_pc

\* C25: a step of the PINGREQ sender or of the Ctrl-C handler leaves the
\* four tables as they are: the sender writes one Pingreq when its sleep
\* ends, the handler writes one Unsubscribe and then sets the flag, and
\* neither writes anything else; a step that changes a table is a step of
\* main() in the drain, the handshake of the pub command or the receive loop.
C25_ThreadsLeaveTables ==
    [][/\ HandlerSteps \/ PingerSteps => tables' = tables /\ pc' = pc
       /\ PingerSteps
          => \/ /\ pinger_pc = "sleep"
                /\ wire_out' = Append(wire_out, PingreqPacket_serialize)
             \/ pinger_pc = "flush" /\ pinger_pc' = "sleep" /\ wire_out' = wire_out
       /\ HandlerSteps
          => \/ /\ handler_pc = "idle"
                /\ Len(wire_out') = Len(wire_out) + 1
                /\ SubSeq(wire_out', 1, Len(wire_out)) = wire_out
                /\ wire_out'[Len(wire_out')][1] = 162
                /\ wait_for_exit' = wait_for_exit
             \/ handler_pc = "flush" /\ wire_out' = wire_out
                /\ wait_for_exit' = wait_for_exit
             \/ handler_pc = "flag" /\ wire_out' = wire_out /\ wait_for_exit'
       /\ tables' # tables
          => /\ pc \in {"drain", "wait_puback", "wait_pubrec", "wait_pubcomp", "loop"}
             /\ ~HandlerSteps /\ ~PingerSteps]_vars

\* C25 happens: with a Publish held in unpubrel_packets the handler has set
\* the flag and the PINGREQ sender has written a Pingreq.
C25_Witness ==
    /\ DOMAIN unpubrel_packets # {}
    /\ wait_for_exit
    /\ WrittenOfKind(12) > 0
    /\ WrittenOfKind(10) > 0


(***************************************************************************)
(* Properties of the errors                                                *)
(***************************************************************************)
\* C26: when main() stops without a panic, after a Suback with another
\* identifier than the Subscribe, a refusing Connack or an acknowledgment
\* with an unknown identifier as after a good exchange, it has written a
\* Disconnect to the stream.
C26_DisconnectOnAbort ==
    pc \in {"returned", "done"} => DisconnectSent


\* C30: the Disconnect is the last packet written to the stream, whatever
\* the order of the steps of main(), the PINGREQ sender and the Ctrl-C
\* handler: nothing is written after it.
C30_DisconnectIsLast ==
    \A k \in DOMAIN wire_out : KindsWritten[k] = 14 => k = Len(wire_out)


\* C31: in the sub command unpubcomp_packets only grows: no step takes an
\* entry out of it or changes one, the step of the receive loop that
\* handles a Pubcomp included; a step of the receive loop that handles
\* Pubrel(id) enters id in it, and after that step id is in
\* unpubcomp_packets and no more in unpubrel_packets.
C31_UnpubcompOnlyGrows ==
    [][cmd = "sub"
       => /\ \A k \in DOMAIN unpubcomp_packets :
               /\ contains_key(unpubcomp_packets', k)
               /\ unpubcomp_packets'[k] = unpubcomp_packets[k]
          /\ \A id \in PacketIds :
               /\ LoopReads /\ Head(received') = Pubrel(id) /\ pc' # "panic"
                  => /\ contains_key(unpubcomp_packets', id)
                     /\ ~contains_key(unpubrel_packets', id)
               /\ LoopReads /\ Head(received') = Pubcomp(id)
                  => unpubcomp_packets' = unpubcomp_packets]_vars

\* C31 happens: a QoS 2 Publish was held, the Pubrel with its identifier
\* has released it, and the identifier is in unpubcomp_packets only.
C31_Witness ==
    /\ cmd = "sub" /\ pc = "loop"
    /\ delivered # <<>>
    /\ \E id \in PacketIds :
         /\ Head(received) = Pubrel(id)
         /\ contains_key(unpubcomp_packets, id)
         /\ ~contains_key(unpubrel_packets, id)

====
